---- MODULE Spec2Model ----
(***************************************************************************)
(* Model of slot_data_viewer_gdrive.py: one Streamlit script run (main) is  *)
(* a sequence of steps over a process-wide table cache (st.cache_data) and  *)
(* a font cache (st.cache_resource).  Tables are sequences of rows; a row   *)
(* is a function from column names to cell values.                         *)
(***************************************************************************)
EXTENDS Integers, Sequences, FiniteSets, TLC

VARIABLES
  cache,               \* st.cache_data of load_data: url -> None | Some(table)
  font_cached,         \* st.cache_resource of load_font holds a result
  fetches,             \* url -> number of pd.read_csv calls made so far
  pc,                  \* position of the current script run
  store,               \* st.sidebar.selectbox("store")
  fetched,             \* None | Some(response) : what read_csv got in this run
  df,                  \* None | Some(table) returned by load_data in this run
  model,               \* None | Some(model name) from the model selectbox
  filtered_df,         \* None | Some(rows) : df[df[MODEL_COL] == model]
  visualization_type,  \* None | Some("heatmap" | "sparkline")
  pivot_df,            \* None | Some(pivot) built in section 1
  machine,             \* None | Some(machine id) from the machine selectbox
  target_df,           \* None | Some(rows) of the chosen machine, date-sorted
  col_ma,              \* None | Some(column) chosen for the moving average
  ma_df,               \* None | Some(rows with MA7 and MA14)
  shown,               \* elements rendered in this run (widgets, messages, charts)
  raised,              \* an exception escaped main in this run
  stopped              \* st.stop() ended this run

vars == <<cache, font_cached, fetches, pc, store, fetched, df, model, filtered_df,
          visualization_type, pivot_df, machine, target_df, col_ma, ma_df, shown,
          raised, stopped>>

run_vars == <<model, filtered_df, visualization_type, pivot_df, machine, target_df,
              col_ma, ma_df>>

-----------------------------------------------------------------------------
\* Optional values: Python's None / a raised exception, and pandas' NaN.
None == <<>>
Some(x) == <<x>>
NaN == <<>>

\* Bounds of the model.
MaxFetch == 2
MaxRows == 3
MaxLen == 16

\* Column names (lines 25-28) and the two stores' heatmap columns (line 182).
DATE_COL == "date"
MODEL_COL == "model"
MACHINE_COL == "machine"
STORE_COL == "store"
MOCHIDAMA_COL == "max_mochidama"
SADAMA_COL == "max_sadama"

\* Stores and their Google Drive file ids (lines 146-149).
MESSE == "messe_musashisakai"
PREGO == "prego_tachikawa"
store_files == [s \in {MESSE, PREGO} |->
                  IF s = MESSE THEN "1Anw7miFIJYE6_lveWUqx74xLS99Fkb-G"
                               ELSE "1wUJX8Uz-LP6VGzB9vsypBQFuf_bufsWJ"]
Stores == DOMAIN store_files
url(file_id) == <<"https://drive.google.com/uc?id=", file_id>>
Urls == {url(store_files[s]) : s \in Stores}

VizTypes == {"heatmap", "sparkline"}

\* What a run can render.
W_STORE == <<"selectbox", "store">>
W_MODEL == <<"selectbox", "model">>
W_VIZ == <<"radio", "visualization_type">>
W_MACHINE == <<"selectbox", "machine">>
W_COL_MA == <<"selectbox", "ma_col">>
ERR_LOAD == <<"error", "load">>
ERR_COLUMN(col) == <<"error", "missing_column", col>>
ERR_EMPTY_MODEL == <<"error", "empty_model">>
ERR_EMPTY_MACHINE == <<"error", "empty_machine">>
ERR_NO_OPTIONS == <<"error", "no_col_options">>
WARN_HEATMAP_COL == <<"warning", "heatmap_col">>
PLOT_HEATMAP == <<"pyplot", "heatmap">>
PLOT_SPARKLINES == <<"pyplot", "sparklines">>
PLOT_MA == <<"pyplot", "moving_average">>

-----------------------------------------------------------------------------
\* pd.to_datetime (line 61): a date cell <<y, m, d>> becomes a day ordinal
\* (days since 1970-01-01); any other text, or a day that does not exist, raises.
IsLeap(y) == (y % 4 = 0 /\ y % 100 # 0) \/ y % 400 = 0
DaysInMonth(y, m) ==
  IF m = 2 THEN (IF IsLeap(y) THEN 29 ELSE 28)
  ELSE IF m \in {4, 6, 9, 11} THEN 30 ELSE 31
DaysFromCivil(y, m, d) ==
  LET yy == IF m <= 2 THEN y - 1 ELSE y
      era == yy \div 400
      yoe == yy - era * 400
      mp == IF m > 2 THEN m - 3 ELSE m + 9
      doy == (153 * mp + 2) \div 5 + d - 1
      doe == yoe * 365 + yoe \div 4 - yoe \div 100 + doy
  IN era * 146097 + doe - 719468
to_datetime(cell) ==
  IF /\ Len(cell) = 3
     /\ cell[2] \in 1..12
     /\ cell[3] \in 1..DaysInMonth(cell[1], cell[2])
  THEN Some(DaysFromCivil(cell[1], cell[2], cell[3]))
  ELSE None

\* The body of load_data (lines 58-66): None stands for the re-raised exception.
\* resp is what the URL answers: None (unreachable or not a CSV) or Some(csv).
\* (mutant) load_data also raises when the model or the machine column is missing.
load_data_checks_required(resp) ==
  IF resp = None THEN None
  ELSE LET csv == resp[1] IN
    IF ~({DATE_COL, MODEL_COL, MACHINE_COL} \subseteq csv.columns) THEN None
    ELSE IF \E i \in 1..Len(csv.rows) : to_datetime(csv.rows[i][DATE_COL]) = None
    THEN None
    ELSE Some([columns |-> csv.columns,
               rows |-> [i \in 1..Len(csv.rows) |->
                          [csv.rows[i] EXCEPT ![DATE_COL] = to_datetime(@)[1]]]])
load_data(resp) ==
  IF resp = None THEN None
  ELSE LET csv == resp[1] IN
    IF DATE_COL \notin csv.columns THEN None
    ELSE IF \E i \in 1..Len(csv.rows) : to_datetime(csv.rows[i][DATE_COL]) = None
    THEN None
    ELSE Some([columns |-> csv.columns,
               rows |-> [i \in 1..Len(csv.rows) |->
                          [csv.rows[i] EXCEPT ![DATE_COL] = to_datetime(@)[1]]]])

\* st.cache_data (line 48): a hit returns the stored value without running the
\* body; only a returned value is stored, a raised exception is not.
\* (mutant) no memoization: every call runs the body.
cache_never_hit(c, key) == FALSE
\* (mutant) a failed load clears the whole cache.
cache_store_clearing(c, key, result) ==
  IF result = None THEN [k \in DOMAIN c |-> None] ELSE [c EXCEPT ![key] = result]
cache_hit(c, key) == c[key] # None
cache_store(c, key, result) ==
  IF result = None THEN c ELSE [c EXCEPT ![key] = result]

-----------------------------------------------------------------------------
\* Series.unique() as a set, and st.selectbox: any of the options, None if
\* there is none.
unique(rows, col) == {rows[i][col] : i \in 1..Len(rows)}
selectbox(options) == IF options = {} THEN {None} ELSE {Some(o) : o \in options}

\* df[df[col] == val] (lines 171, 200): a boolean mask, then the rows it keeps.
boolean_mask(rows, col, val) == [i \in 1..Len(rows) |-> Some(rows[i][col]) = val]
RECURSIVE take_masked(_, _)
take_masked(rows, mask) ==
  IF Len(rows) = 0 THEN <<>>
  ELSE (IF mask[1] THEN <<rows[1]>> ELSE <<>>)
         \o take_masked(Tail(rows), Tail(mask))
filter_eq(rows, col, val) == take_masked(rows, boolean_mask(rows, col, val))

\* sort_values(col) (lines 118, 200): ascending; the default sort is not stable,
\* so rows with equal keys come in any order.
remove_at(s, i) == [j \in 1..(Len(s) - 1) |-> IF j < i THEN s[j] ELSE s[j + 1]]
RECURSIVE sort_values(_, _)
sort_values(rows, col) ==
  IF Len(rows) = 0 THEN {<<>>}
  ELSE LET mins == {i \in 1..Len(rows) :
                      \A j \in 1..Len(rows) : rows[i][col] <= rows[j][col]}
       IN UNION {{<<rows[i]>> \o rest : rest \in sort_values(remove_at(rows, i), col)}
                 : i \in mins}

\* sorted(set) as a sequence.
RECURSIVE sorted(_)
sorted(S) ==
  IF S = {} THEN <<>>
  ELSE LET m == CHOOSE x \in S : \A y \in S : x <= y
       IN <<m>> \o sorted(S \ {m})

\* DataFrame.pivot(index, columns, values) (line 184): one row per index value and
\* one column per columns value, both ascending; a pair that has no record holds
\* NaN; two records with the same pair raise ValueError ("Index contains duplicate
\* entries, cannot reshape"), for which None stands.
\* (mutant) fill_value=0: a pair that has no record holds 0.
pivot_fill_zero(rows, index, columns, values) ==
  IF \E i, j \in 1..Len(rows) : /\ i < j
                                /\ rows[i][index] = rows[j][index]
                                /\ rows[i][columns] = rows[j][columns]
  THEN None
  ELSE Some([index |-> sorted(unique(rows, index)),
             columns |-> sorted(unique(rows, columns)),
             cell |-> [k \in unique(rows, index), d \in unique(rows, columns) |->
                        IF \E i \in 1..Len(rows) : rows[i][index] = k /\ rows[i][columns] = d
                        THEN Some(rows[CHOOSE i \in 1..Len(rows) :
                                         rows[i][index] = k /\ rows[i][columns] = d][values])
                        ELSE Some(0)]])
\* (mutant) pivot_table(aggfunc="last"): duplicates do not raise, the last one wins.
pivot_last_wins(rows, index, columns, values) ==
  Some([index |-> sorted(unique(rows, index)),
        columns |-> sorted(unique(rows, columns)),
        cell |-> [k \in unique(rows, index), d \in unique(rows, columns) |->
                   LET hits == {i \in 1..Len(rows) :
                                  rows[i][index] = k /\ rows[i][columns] = d}
                   IN IF hits = {} THEN NaN
                      ELSE Some(rows[CHOOSE i \in hits : \A j \in hits : j <= i][values])]])
pivot(rows, index, columns, values) ==
  IF \E i, j \in 1..Len(rows) : /\ i < j
                                /\ rows[i][index] = rows[j][index]
                                /\ rows[i][columns] = rows[j][columns]
  THEN None
  ELSE Some([index |-> sorted(unique(rows, index)),
             columns |-> sorted(unique(rows, columns)),
             cell |-> [k \in unique(rows, index), d \in unique(rows, columns) |->
                        IF \E i \in 1..Len(rows) : rows[i][index] = k /\ rows[i][columns] = d
                        THEN Some(rows[CHOOSE i \in 1..Len(rows) :
                                         rows[i][index] = k /\ rows[i][columns] = d][values])
                        ELSE NaN]])

\* Series.rolling(window=w, min_periods=minp).mean() (lines 119-120).  The window
\* of row i is the rows window_start(i, w)..i (a fixed number of rows); pandas
\* slides it, removing the rows that left and adding the row that entered, and
\* yields sum / nobs, kept here as the fraction <<sum, nobs>>, or NaN when fewer
\* than minp rows are in it.
W7 == 7
W14 == 14
MIN_PERIODS == 1
\* (mutant) the window reaches one row too far back.
window_start_off(i, w) == IF i - w > 1 THEN i - w ELSE 1
window_start(i, w) == IF i - w + 1 > 1 THEN i - w + 1 ELSE 1
RECURSIVE add_range(_, _, _, _)
add_range(st, x, a, b) ==
  IF a > b THEN st ELSE add_range(<<st[1] + x[a], st[2] + 1>>, x, a + 1, b)
RECURSIVE remove_range(_, _, _, _)
remove_range(st, x, a, b) ==
  IF a > b THEN st ELSE remove_range(<<st[1] - x[a], st[2] - 1>>, x, a + 1, b)
RECURSIVE roll_state(_, _, _)
roll_state(x, w, i) ==
  IF i = 1 THEN add_range(<<0, 0>>, x, window_start(1, w), 1)
  ELSE add_range(remove_range(roll_state(x, w, i - 1), x,
                              window_start(i - 1, w), window_start(i, w) - 1),
                 x, i, i)
calc_mean(st, minp) == IF st[2] >= minp /\ st[2] > 0 THEN st ELSE NaN
\* (mutant) rolling("<w>D"): the window of row i is the rows of the last w calendar
\* days, not the last w rows.
rolling_mean_calendar(rows, col, w, minp) ==
  [i \in 1..Len(rows) |->
     LET win == {j \in 1..i : rows[j][DATE_COL] > rows[i][DATE_COL] - w}
         lo == CHOOSE j \in win : \A k \in win : j <= k
     IN calc_mean(add_range(<<0, 0>>, [j \in 1..Len(rows) |-> rows[j][col]], lo, i), minp)]
rolling_mean(rows, col, w, minp) ==
  LET x == [j \in 1..Len(rows) |-> rows[j][col]]
  IN [i \in 1..Len(rows) |-> calc_mean(roll_state(x, w, i), minp)]

\* plot_moving_average (lines 114-131): the frames ma_df it can plot, one per
\* order sort_values can give the rows.
moving_averages(s, col) ==
  LET ma7 == rolling_mean(s, col, W7, MIN_PERIODS)
      ma14 == rolling_mean(s, col, W14, MIN_PERIODS)
  IN [i \in 1..Len(s) |->
        [date |-> s[i][DATE_COL], value |-> s[i][col], MA7 |-> ma7[i], MA14 |-> ma14[i]]]
plot_moving_average(target, col) ==
  {moving_averages(s, col) : s \in sort_values(target, DATE_COL)}

-----------------------------------------------------------------------------
\* The CSV files the two URLs can answer with.
Jan(d) == <<2024, 1, d>>
RawRow(d, m, k, col, v) ==
  [c \in {DATE_COL, MODEL_COL, MACHINE_COL, col} |->
     IF c = DATE_COL THEN d
     ELSE IF c = MODEL_COL THEN m
     ELSE IF c = MACHINE_COL THEN k
     ELSE v]
Csv(col, rows) == [columns |-> {DATE_COL, MODEL_COL, MACHINE_COL, col}, rows |-> rows]
Without(csv, col) ==
  [columns |-> csv.columns \ {col},
   rows |-> [i \in 1..Len(csv.rows) |->
               [c \in (DOMAIN csv.rows[i]) \ {col} |-> csv.rows[i][c]]]]

CsvEmpty == Csv(MOCHIDAMA_COL, <<>>)
CsvOneRow == Csv(MOCHIDAMA_COL, <<RawRow(Jan(1), "A", 1, MOCHIDAMA_COL, 100)>>)
CsvExample ==
  Csv(MOCHIDAMA_COL, <<RawRow(Jan(1), "M1", 1, MOCHIDAMA_COL, 100),
                       RawRow(Jan(2), "M1", 1, MOCHIDAMA_COL, 150),
                       RawRow(Jan(8), "M1", 1, MOCHIDAMA_COL, 200)>>)
CsvTwoModels ==
  Csv(MOCHIDAMA_COL, <<RawRow(Jan(2), "A", 2, MOCHIDAMA_COL, 0),
                       RawRow(Jan(1), "B", 2, MOCHIDAMA_COL, 7),
                       RawRow(Jan(1), "A", 1, MOCHIDAMA_COL, 5)>>)
CsvDuplicate ==
  Csv(MOCHIDAMA_COL, <<RawRow(Jan(1), "A", 1, MOCHIDAMA_COL, 5),
                       RawRow(Jan(1), "A", 1, MOCHIDAMA_COL, 7)>>)
CsvSadama ==
  Csv(SADAMA_COL, <<RawRow(Jan(2), "A", 1, SADAMA_COL, -3),
                    RawRow(Jan(1), "A", 1, SADAMA_COL, 4)>>)
CsvSadamaDuplicate ==
  Csv(SADAMA_COL, <<RawRow(Jan(1), "A", 1, SADAMA_COL, 4),
                    RawRow(Jan(1), "A", 1, SADAMA_COL, 6)>>)
CsvNoMetric == Csv(STORE_COL, <<RawRow(Jan(1), "A", 1, STORE_COL, MESSE)>>)
CsvNoDate == Without(CsvOneRow, DATE_COL)
CsvNoModel == Without(CsvOneRow, MODEL_COL)
CsvNoMachine == Without(CsvOneRow, MACHINE_COL)
CsvBadDate == Csv(MOCHIDAMA_COL, <<RawRow(<<2024, 2, 30>>, "A", 1, MOCHIDAMA_COL, 1)>>)
CsvFiles == {CsvEmpty, CsvOneRow, CsvExample, CsvTwoModels, CsvDuplicate, CsvSadama,
             CsvSadamaDuplicate, CsvNoMetric, CsvNoDate, CsvNoModel, CsvNoMachine,
             CsvBadDate}
Responses == {None} \cup {Some(csv) : csv \in CsvFiles}

-----------------------------------------------------------------------------
Init ==
  /\ cache = [u \in Urls |-> None]
  /\ font_cached = FALSE
  /\ fetches = [u \in Urls |-> 0]
  /\ pc = "idle"
  /\ store = MESSE
  /\ fetched = None
  /\ df = None
  /\ model = None
  /\ filtered_df = None
  /\ visualization_type = None
  /\ pivot_df = None
  /\ machine = None
  /\ target_df = None
  /\ col_ma = None
  /\ ma_df = None
  /\ shown = {}
  /\ raised = FALSE
  /\ stopped = FALSE

\* A script run starts (lines 137-152): every widget interaction reruns main from
\* the top.  load_font raises when the download fails and nothing is cached yet.
Rerun(s) ==
  /\ pc \in {"idle", "done"}
  /\ cache_hit(cache, url(store_files[s])) \/ fetches[url(store_files[s])] < MaxFetch
  /\ store' = s
  /\ fetched' = None
  /\ df' = None
  /\ model' = None
  /\ filtered_df' = None
  /\ visualization_type' = None
  /\ pivot_df' = None
  /\ machine' = None
  /\ target_df' = None
  /\ col_ma' = None
  /\ ma_df' = None
  /\ stopped' = FALSE
  /\ \E font_ok \in (IF font_cached THEN {TRUE} ELSE BOOLEAN) :
       /\ font_cached' = font_ok
       /\ raised' = ~font_ok
       /\ shown' = IF font_ok THEN {W_STORE} ELSE {}
       /\ pc' = IF font_ok THEN "load" ELSE "done"
  /\ UNCHANGED <<cache, fetches>>

\* df = load_data(url) under st.spinner, with main's except branch (lines 154-160).
LoadData ==
  /\ pc = "load"
  /\ LET u == url(store_files[store]) IN
       IF cache_hit(cache, u)
       THEN /\ df' = cache[u]
            /\ pc' = "validate"
            /\ UNCHANGED <<cache, fetches, fetched, shown, stopped>>
       ELSE \E resp \in Responses :
              LET result == load_data(resp) IN
                /\ fetched' = Some(resp)
                /\ fetches' = [fetches EXCEPT ![u] = @ + 1]
                /\ cache' = cache_store(cache, u, result)
                /\ df' = result
                /\ shown' = IF result = None THEN shown \cup {ERR_LOAD} ELSE shown
                /\ stopped' = (result = None)
                /\ pc' = IF result = None THEN "done" ELSE "validate"
  /\ UNCHANGED <<font_cached, store, raised>>
  /\ UNCHANGED run_vars

\* The required-column check (lines 162-167): the first missing one is reported.
required_columns == <<DATE_COL, MODEL_COL, MACHINE_COL>>
ValidateColumns ==
  /\ pc = "validate"
  /\ LET missing == {i \in 1..Len(required_columns) :
                       required_columns[i] \notin df[1].columns} IN
       IF missing # {}
       THEN /\ shown' = shown \cup
                  {ERR_COLUMN(required_columns[CHOOSE i \in missing :
                                                 \A j \in missing : i <= j])}
            /\ stopped' = TRUE
            /\ pc' = "done"
       ELSE /\ pc' = "select"
            /\ UNCHANGED <<shown, stopped>>
  /\ UNCHANGED <<cache, font_cached, fetches, store, fetched, df, raised>>
  /\ UNCHANGED run_vars

\* The model selectbox and the filter (lines 170-174).
\* (mutant) the emptiness check never fires.
empty_never(view) == FALSE
empty(view) == Len(view) = 0
\* (mutant) the comparison is inverted.
filter_by_model_negated(table, m) ==
  take_masked(table.rows, [i \in 1..Len(table.rows) |->
                             ~boolean_mask(table.rows, MODEL_COL, m)[i]])
filter_by_model(table, m) == filter_eq(table.rows, MODEL_COL, m)
SelectModel ==
  /\ pc = "select"
  /\ \E m \in selectbox(unique(df[1].rows, MODEL_COL)) :
       LET view == filter_by_model(df[1], m) IN
         /\ model' = m
         /\ filtered_df' = Some(view)
         /\ IF empty(view)
            THEN /\ shown' = shown \cup {W_MODEL, ERR_EMPTY_MODEL}
                 /\ stopped' = TRUE
                 /\ pc' = "done"
            ELSE /\ shown' = shown \cup {W_MODEL}
                 /\ pc' = "section1"
                 /\ UNCHANGED stopped
  /\ UNCHANGED <<cache, font_cached, fetches, store, fetched, df, raised,
                 visualization_type, pivot_df, machine, target_df, col_ma, ma_df>>

\* Section 1 (lines 177-194): the pivot is built before the display type is
\* looked at; an exception of pivot escapes main.
heatmap_col(s) == IF s = MESSE THEN MOCHIDAMA_COL ELSE SADAMA_COL
build_pivot(rows, col) == pivot(rows, MACHINE_COL, DATE_COL, col)
\* (mutant) the pivot is built in the heatmap branch only.
Section1Lazy ==
  /\ pc = "section1"
  /\ \E v \in VizTypes :
       /\ visualization_type' = Some(v)
       /\ IF heatmap_col(store) \in df[1].columns
          THEN LET p == IF v = "heatmap"
                        THEN build_pivot(filtered_df[1], heatmap_col(store))
                        ELSE None IN
                 /\ pivot_df' = p
                 /\ raised' = (v = "heatmap" /\ p = None)
                 /\ shown' = IF v = "heatmap" /\ p = None THEN shown \cup {W_VIZ}
                             ELSE shown \cup {W_VIZ, IF v = "heatmap" THEN PLOT_HEATMAP
                                                                      ELSE PLOT_SPARKLINES}
                 /\ pc' = IF v = "heatmap" /\ p = None THEN "done" ELSE "section2"
          ELSE /\ shown' = shown \cup {W_VIZ, WARN_HEATMAP_COL}
               /\ pc' = "section2"
               /\ UNCHANGED <<pivot_df, raised>>
  /\ UNCHANGED <<cache, font_cached, fetches, store, fetched, df, stopped,
                 model, filtered_df, machine, target_df, col_ma, ma_df>>
Section1 ==
  /\ pc = "section1"
  /\ \E v \in VizTypes :
       /\ visualization_type' = Some(v)
       /\ IF heatmap_col(store) \in df[1].columns
          THEN LET p == build_pivot(filtered_df[1], heatmap_col(store)) IN
                 /\ pivot_df' = p
                 /\ raised' = (p = None)
                 /\ shown' = IF p = None THEN shown \cup {W_VIZ}
                             ELSE shown \cup {W_VIZ, IF v = "heatmap" THEN PLOT_HEATMAP
                                                                      ELSE PLOT_SPARKLINES}
                 /\ pc' = IF p = None THEN "done" ELSE "section2"
          ELSE /\ shown' = shown \cup {W_VIZ, WARN_HEATMAP_COL}
               /\ pc' = "section2"
               /\ UNCHANGED <<pivot_df, raised>>
  /\ UNCHANGED <<cache, font_cached, fetches, store, fetched, df, stopped,
                 model, filtered_df, machine, target_df, col_ma, ma_df>>

\* Section 2 (lines 196-212): the machine's rows, date-sorted, and their moving
\* averages over a column that is none of the four excluded ones.
exclude_cols == {DATE_COL, MODEL_COL, MACHINE_COL, STORE_COL}
Section2 ==
  /\ pc = "section2"
  /\ \E k \in selectbox(unique(filtered_df[1], MACHINE_COL)) :
     \E t \in sort_values(filter_eq(filtered_df[1], MACHINE_COL, k), DATE_COL) :
       LET col_options == df[1].columns \ exclude_cols IN
         /\ machine' = k
         /\ target_df' = Some(t)
         /\ IF empty(t)
            THEN /\ shown' = shown \cup {W_MACHINE, ERR_EMPTY_MACHINE}
                 /\ UNCHANGED <<col_ma, ma_df>>
            ELSE IF col_options = {}
            THEN /\ shown' = shown \cup {W_MACHINE, ERR_NO_OPTIONS}
                 /\ UNCHANGED <<col_ma, ma_df>>
            ELSE \E c \in col_options :
                 \E ma \in plot_moving_average(t, c) :
                   /\ col_ma' = Some(c)
                   /\ ma_df' = Some(ma)
                   /\ shown' = shown \cup {W_MACHINE, W_COL_MA, PLOT_MA}
  /\ pc' = "done"
  /\ UNCHANGED <<cache, font_cached, fetches, store, fetched, df, raised, stopped,
                 model, filtered_df, visualization_type, pivot_df>>

Next ==
  \/ \E s \in Stores : Rerun(s)
  \/ LoadData
  \/ ValidateColumns
  \/ SelectModel
  \/ Section1
  \/ Section2

Spec == Init /\ [][Next]_vars

-----------------------------------------------------------------------------
\* The data pipeline on larger tables: the runs start where a first run stands
\* once load_data has returned and the required columns were found.
\* Tables of up to MaxRows rows: two models with their machines, and one model
\* with every combination of machine, date and value.
ModelRows ==
  {RawRow(d, m, k, MOCHIDAMA_COL, 3) :
     d \in {Jan(1), Jan(8)}, m \in {"A", "B"}, k \in {1, 2}}
MachineRows ==
  {RawRow(d, "A", k, MOCHIDAMA_COL, v) :
     d \in {Jan(1), Jan(2), Jan(8)}, k \in {1, 2}, v \in {0, 3}}
SmallCsvFiles ==
  {Csv(MOCHIDAMA_COL, rows) :
     rows \in UNION {[1..n -> ModelRows] \cup [1..n -> MachineRows] : n \in 0..MaxRows}}
\* One machine reporting on n consecutive days, the rows arriving rotated by r,
\* the value of day p standing out.
LongCsv(n, r, p) ==
  Csv(MOCHIDAMA_COL,
      [j \in 1..n |->
         LET day == ((j - 1 + r) % n) + 1
         IN RawRow(Jan(day), "A", 1, MOCHIDAMA_COL, IF day = p THEN -5 ELSE day)])
LongCsvFiles == {LongCsv(n, r, p) : n \in 1..MaxLen, r \in 0..2, p \in 1..MaxLen}
DataCsvFiles == SmallCsvFiles \cup LongCsvFiles \cup {CsvExample}

InitData ==
  \E csv \in DataCsvFiles, s \in Stores :
    /\ cache = [u \in Urls |-> IF u = url(store_files[s])
                               THEN load_data(Some(csv)) ELSE None]
    /\ font_cached = TRUE
    /\ fetches = [u \in Urls |-> IF u = url(store_files[s]) THEN 1 ELSE 0]
    /\ pc = "select"
    /\ store = s
    /\ fetched = Some(Some(csv))
    /\ df = load_data(Some(csv))
    /\ model = None
    /\ filtered_df = None
    /\ visualization_type = None
    /\ pivot_df = None
    /\ machine = None
    /\ target_df = None
    /\ col_ma = None
    /\ ma_df = None
    /\ shown = {W_STORE}
    /\ raised = FALSE
    /\ stopped = FALSE

NextData ==
  \/ SelectModel
  \/ Section1
  \/ Section2

SpecData == InitData /\ [][NextData]_vars

-----------------------------------------------------------------------------
\* Helpers of the properties below.
RECURSIVE SumOver(_, _, _)
SumOver(x, a, b) == IF a > b THEN 0 ELSE x[a] + SumOver(x, a + 1, b)
RatEq(p, q) == p # NaN /\ q # NaN /\ p[1] * q[2] = q[1] * p[2]
Count(s, r) == Cardinality({i \in 1..Len(s) : s[i] = r})
Min(a, b) == IF a < b THEN a ELSE b
\* The rows of the chosen machine as they stand in the filtered view.
ChosenMachineRows == SelectSeq(filtered_df[1], LAMBDA r : Some(r[MACHINE_COL]) = machine)
HasDuplicatePair(rows) ==
  \E i, j \in 1..Len(rows) : /\ i # j
                             /\ rows[i][MACHINE_COL] = rows[j][MACHINE_COL]
                             /\ rows[i][DATE_COL] = rows[j][DATE_COL]

\* C1: the moving-average frame has one row per row of the machine, ascending by
\* date whatever the arrival order, and at sorted position i the w-row mean
\* (w = 7, 14) is the arithmetic mean of the raw values at positions
\* max(1, i-w+1)..i; the first row's means are its raw value, and with 14 rows or
\* more the last 14-row mean is the mean of the last 14 raw values.
C1_MovingAverage ==
  ma_df # None =>
    LET out == ma_df[1]
        inp == ChosenMachineRows
        n == Len(out)
        x == [i \in 1..n |-> out[i].value]
        lo(i, w) == IF i - w + 1 > 1 THEN i - w + 1 ELSE 1
    IN /\ n = Len(inp)
       /\ \A i \in 1..(n - 1) : out[i].date <= out[i + 1].date
       /\ \A i \in 1..n :
            Cardinality({j \in 1..n : /\ inp[j][DATE_COL] = out[i].date
                                      /\ inp[j][col_ma[1]] = out[i].value})
              = Cardinality({j \in 1..n : /\ out[j].date = out[i].date
                                          /\ out[j].value = out[i].value})
       /\ \A i \in 1..n :
            /\ RatEq(out[i].MA7, <<SumOver(x, lo(i, 7), i), i - lo(i, 7) + 1>>)
            /\ RatEq(out[i].MA14, <<SumOver(x, lo(i, 14), i), i - lo(i, 14) + 1>>)
       /\ n >= 1 => RatEq(out[1].MA7, <<x[1], 1>>) /\ RatEq(out[1].MA14, <<x[1], 1>>)
       /\ n >= 14 => RatEq(out[n].MA14, <<SumOver(x, n - 13, n), 14>>)

\* C1 witness: a machine with more than 14 rows that arrived out of date order.
C1_Witness ==
  /\ ma_df # None
  /\ Len(ma_df[1]) > 14
  /\ \E i \in 1..(Len(ChosenMachineRows) - 1) :
       ChosenMachineRows[i][DATE_COL] > ChosenMachineRows[i + 1][DATE_COL]

\* C2: the filtered view holds exactly the rows of the chosen model in their
\* original order, and the views of the distinct model values partition the table:
\* every row is in the view of its model as often as in the table, in no other
\* view, and the views hold rows of the table only.
C2_FilterPartition ==
  filtered_df # None =>
    LET rows == df[1].rows
        view == filtered_df[1]
        I == {i \in 1..Len(rows) : Some(rows[i][MODEL_COL]) = model}
        nth(j) == CHOOSE i \in I : Cardinality({k \in I : k <= i}) = j
        models == {rows[i][MODEL_COL] : i \in 1..Len(rows)}
        V(m) == filter_by_model(df[1], Some(m))
    IN /\ Len(view) = Cardinality(I)
       /\ \A j \in 1..Len(view) : view[j] = rows[nth(j)]
       /\ \A i \in 1..Len(rows) : \A m \in models :
            Count(V(m), rows[i]) = IF m = rows[i][MODEL_COL] THEN Count(rows, rows[i]) ELSE 0
       /\ \A m \in models : \A j \in 1..Len(V(m)) : Count(rows, V(m)[j]) > 0

\* C2 witness: a table of two models whose chosen model has rows on both sides of
\* a row of the other one.
C2_Witness ==
  /\ filtered_df # None
  /\ Len(filtered_df[1]) = 2
  /\ Len(df[1].rows) = 3
  /\ Some(df[1].rows[2][MODEL_COL]) # model

\* C3: over a view with at most one record per (machine, date) the pivot is built,
\* with one row per distinct machine and one column per distinct date; the cell
\* of a pair in the view holds that record's value, every other cell holds NaN,
\* which is not the number 0.
C3_Pivot ==
  (/\ visualization_type # None
   /\ heatmap_col(store) \in df[1].columns
   /\ ~HasDuplicatePair(filtered_df[1])) =>
    LET view == filtered_df[1]
        K == {view[i][MACHINE_COL] : i \in 1..Len(view)}
        D == {view[i][DATE_COL] : i \in 1..Len(view)}
    IN /\ pivot_df # None
       /\ Len(pivot_df[1].index) = Cardinality(K)
       /\ {pivot_df[1].index[i] : i \in 1..Len(pivot_df[1].index)} = K
       /\ Len(pivot_df[1].columns) = Cardinality(D)
       /\ {pivot_df[1].columns[i] : i \in 1..Len(pivot_df[1].columns)} = D
       /\ DOMAIN pivot_df[1].cell = K \X D
       /\ \A i \in 1..Len(view) :
            pivot_df[1].cell[view[i][MACHINE_COL], view[i][DATE_COL]]
              = Some(view[i][heatmap_col(store)])
       /\ \A k \in K, d \in D :
            (\A i \in 1..Len(view) : view[i][MACHINE_COL] # k \/ view[i][DATE_COL] # d)
              => /\ pivot_df[1].cell[k, d] = NaN
                 /\ pivot_df[1].cell[k, d] # Some(0)

\* C3 witness: a pivot of two machines and two dates with a cell holding 0 and a
\* cell without a record.
C3_Witness ==
  /\ pivot_df # None
  /\ Len(pivot_df[1].index) = 2
  /\ Len(pivot_df[1].columns) = 2
  /\ \E c \in DOMAIN pivot_df[1].cell : pivot_df[1].cell[c] = Some(0)
  /\ \E c \in DOMAIN pivot_df[1].cell : pivot_df[1].cell[c] = NaN

\* C9: windows count rows, not calendar days: the frame has the machine's dates
\* and no other, and the 7-row window of sorted position i holds min(i, 7) rows
\* whatever the gaps between the dates; the rows (2024-01-01, 100),
\* (2024-01-02, 150), (2024-01-08, 200) give the 7-row means 100, 125, 150.
C9_NoGapFilling ==
  ma_df # None =>
    LET out == ma_df[1]
        inp == ChosenMachineRows
    IN /\ Len(out) = Len(inp)
       /\ {out[i].date : i \in 1..Len(out)} = {inp[i][DATE_COL] : i \in 1..Len(inp)}
       /\ \A i \in 1..Len(out) : out[i].MA7 # NaN /\ out[i].MA7[2] = Min(i, 7)
       /\ ([i \in 1..Len(out) |-> <<out[i].date, out[i].value>>]
             = <<<<DaysFromCivil(2024, 1, 1), 100>>, <<DaysFromCivil(2024, 1, 2), 150>>,
                 <<DaysFromCivil(2024, 1, 8), 200>>>>)
            => /\ RatEq(out[1].MA7, <<100, 1>>)
               /\ RatEq(out[2].MA7, <<125, 1>>)
               /\ RatEq(out[3].MA7, <<150, 1>>)

\* C9 witness: the moving averages of the three example rows.
C9_Witness ==
  /\ ma_df # None
  /\ [i \in 1..Len(ma_df[1]) |-> ma_df[1][i].value] = <<100, 150, 200>>
  /\ ma_df[1][3].date - ma_df[1][2].date = 6

\* The charts of sections 1 and 2.
Charts == {PLOT_HEATMAP, PLOT_SPARKLINES, PLOT_MA}
\* The current run reached section 1 with the store's heatmap column in the table.
PivotAttempted == visualization_type # None /\ heatmap_col(store) \in df[1].columns
\* The CSV file read_csv got in this run, when it got one.
FetchedCsv == fetched # None /\ fetched[1] # None
CurrentUrl == url(store_files[store])

\* C4 as stated: duplicate (machine, date) records raise nothing, the pivot keeps
\* one of their values and the run goes on rendering.
C4_SilentOverwrite ==
  (PivotAttempted /\ HasDuplicatePair(filtered_df[1])) =>
    /\ ~raised
    /\ pivot_df # None
    /\ shown \cap {PLOT_HEATMAP, PLOT_SPARKLINES} # {}

\* C4 amended: duplicate (machine, date) records make pivot raise; the exception
\* escapes main, the run ends there and renders no chart.
C4_DuplicateRaises ==
  (PivotAttempted /\ HasDuplicatePair(filtered_df[1])) =>
    /\ raised
    /\ ~stopped
    /\ pivot_df = None
    /\ pc = "done"
    /\ shown \cap Charts = {}
    /\ machine = None /\ ma_df = None

\* C4 witness: a run that built the pivot of a view with a duplicate pair.
C4_Witness ==
  /\ PivotAttempted
  /\ HasDuplicatePair(filtered_df[1])
  /\ pc = "done"

\* C5: once a key's table is cached, no step changes it or fetches the key again,
\* and a load of that key returns the cached table without reading the URL.
C5_CacheStable ==
  [][\A u \in Urls :
       cache[u] # None =>
         /\ cache'[u] = cache[u]
         /\ fetches'[u] = fetches[u]
         /\ (pc = "load" /\ CurrentUrl = u) => (df' = cache[u] /\ fetched' = None)]_vars

\* C5 witness: a load served from the cache while the other store's table is
\* cached too, after each key was fetched exactly once.
C5_Witness ==
  /\ pc = "validate"
  /\ fetched = None
  /\ df = cache[CurrentUrl]
  /\ \A u \in Urls : cache[u] # None /\ fetches[u] = 1

\* C6 as stated: a fetched file without any one of the date, model and machine
\* columns makes load fail: no table, nothing cached.
C6_LoadRejectsMissingColumns ==
  (FetchedCsv /\ ~({DATE_COL, MODEL_COL, MACHINE_COL} \subseteq fetched[1][1].columns)) =>
    /\ df = None
    /\ cache[CurrentUrl] = None

\* C6 amended: load fails, caching nothing, when the date column is missing; when
\* only the model or the machine column is missing load returns the table and
\* caches it, and the run reports the first missing column and stops.
C6_LoadChecksDateOnly ==
  FetchedCsv =>
    LET cols == fetched[1][1].columns IN
      /\ DATE_COL \notin cols =>
           /\ df = None
           /\ cache[CurrentUrl] = None
           /\ pc = "done" /\ stopped
           /\ shown = {W_STORE, ERR_LOAD}
      /\ (DATE_COL \in cols /\ ~({MODEL_COL, MACHINE_COL} \subseteq cols)) =>
           /\ df # None
           /\ df[1].columns = cols
           /\ cache[CurrentUrl] = df
           /\ pc \in {"validate", "done"}
           /\ pc = "done" =>
                /\ stopped /\ ~raised
                /\ shown = {W_STORE, ERR_COLUMN(IF MODEL_COL \notin cols THEN MODEL_COL
                                                                       ELSE MACHINE_COL)}

\* C6 witness: a run stopped on a missing model column, its table in the cache.
C6_Witness ==
  /\ FetchedCsv
  /\ MODEL_COL \notin fetched[1][1].columns
  /\ pc = "done"
  /\ cache[CurrentUrl] # None

\* C7: a load of a key that is not cached reads the URL (a failure is never
\* replayed); when it fails the run shows the load error and nothing else, stops,
\* and leaves the cache as it was; the next step is a new run.
C7_LoadFailure ==
  [][/\ pc = "load" =>
          /\ cache[CurrentUrl] = None =>
               /\ fetches'[CurrentUrl] = fetches[CurrentUrl] + 1
               /\ fetched' # None
          /\ df' = None =>
               /\ cache' = cache
               /\ shown' = {W_STORE, ERR_LOAD}
               /\ stopped' /\ ~raised'
               /\ pc' = "done"
               /\ model' = None /\ filtered_df' = None /\ pivot_df' = None /\ ma_df' = None
     /\ (pc = "done" /\ fetched # None /\ df = None) =>
          /\ pc' = "load"
          /\ cache' = cache]_vars

\* C7 witness: the second failed load of a key in a row, the other key's table
\* still cached.
C7_Witness ==
  /\ pc = "done"
  /\ fetched # None
  /\ df = None
  /\ fetches[CurrentUrl] = 2
  /\ cache[CurrentUrl] = None
  /\ \E u \in Urls : cache[u] # None

\* C8 as stated: a zero-row filtered view is not reported as an error and does not
\* halt the run.
C8_EmptyViewIsNoError ==
  (filtered_df # None /\ Len(filtered_df[1]) = 0) =>
    /\ ERR_EMPTY_MODEL \notin shown
    /\ ~stopped

\* C8 amended: filtering by a model value no row has gives a zero-row view without
\* raising, and the run reports it with an error message and stops, rendering
\* neither section.
C8_EmptyViewStops ==
  (filtered_df # None /\ Len(filtered_df[1]) = 0) =>
    /\ \A i \in 1..Len(df[1].rows) : Some(df[1].rows[i][MODEL_COL]) # model
    /\ ~raised
    /\ stopped
    /\ pc = "done"
    /\ shown = {W_STORE, W_MODEL, ERR_EMPTY_MODEL}
    /\ visualization_type = None /\ pivot_df = None /\ machine = None /\ ma_df = None

\* C8 witness: a run whose filtered view has no row.
C8_Witness ==
  /\ filtered_df = Some(<<>>)
  /\ df # None
  /\ pc = "done"

\* C10: once the display type was read, the pivot of a present heatmap column has
\* been constructed whatever the display type: either it exists and the chosen
\* chart is shown, or it raised and the run ended with neither the sparklines nor
\* the moving-average chart; a missing heatmap column gives a warning only, and
\* section 2 still runs.
C10_PivotBeforeDisplay ==
  visualization_type # None =>
    IF heatmap_col(store) \in df[1].columns
    THEN /\ pivot_df # None \/ raised
         /\ raised =>
              /\ HasDuplicatePair(filtered_df[1])
              /\ pc = "done"
              /\ shown \cap Charts = {}
              /\ machine = None /\ ma_df = None
         /\ ~raised =>
              /\ pc \in {"section2", "done"}
              /\ (IF visualization_type = Some("heatmap") THEN PLOT_HEATMAP
                                                          ELSE PLOT_SPARKLINES) \in shown
              /\ pc = "done" => PLOT_MA \in shown /\ ma_df # None
    ELSE /\ WARN_HEATMAP_COL \in shown
         /\ pivot_df = None
         /\ ~raised /\ ~stopped
         /\ pc \in {"section2", "done"}
         /\ pc = "done" => /\ machine # None
                           /\ PLOT_MA \in shown \/ ERR_NO_OPTIONS \in shown

\* C10 witness: the sparkline display was chosen and the pivot raised.
C10_Witness ==
  /\ visualization_type = Some("sparkline")
  /\ raised
  /\ PLOT_SPARKLINES \notin shown

====
